---- MODULE Spec2Model ----
(***************************************************************************)
(* Model of the realtime-poll front end:                                   *)
(*   - src/realtime-poll/src/apollo.js: the endpoint derivation and the    *)
(*     transport router (split(splitter, wsLink, httpLink));               *)
(*   - the components printed in src/realtime-poll/README.md: Poll,        *)
(*     PollQuestion and Result.                                            *)
(* JavaScript's undefined is the value Undefined.  A GraphQL document is   *)
(* the sequence of its definitions, each [kind, operation].  A URI built   *)
(* by a template literal `${s}://${h}/v1/graphql` is the record of its     *)
(* parts; the scheme itself is a string built by concatenation.            *)
(***************************************************************************)
EXTENDS Naturals, Sequences, FiniteSets

VARIABLES
    protocol,    \* window.location.protocol
    wsURI,       \* apollo.js:12
    httpURL,     \* apollo.js:13
    requests,    \* operations handed to client.link, in order
    wsLink,      \* what wsLink was asked to send: <<[operation, url]>>
    httpLink,    \* what httpLink was asked to send: <<[operation, url]>>
    pollQuery,   \* Poll: result of useQuery(QUERY_GET_POLL)
    subscription,\* Result: result of useSubscription(SUBSCRIPTION_RESULT)
    state,       \* PollQuestion: useState(defaultState)
    mutation,    \* PollQuestion: result of useMutation(MUTATION_VOTE)
    timer,       \* PollQuestion: the 5000 ms timeout is pending
    checked,     \* the radio of the form that is checked in the page
    submits      \* number of submit events handled

routerVars == <<requests, wsLink, httpLink>>
pageVars   == <<protocol, wsURI, httpURL>>
pollVars   == <<pollQuery, subscription, state, mutation, timer, checked, submits>>
vars       == <<protocol, wsURI, httpURL, requests, wsLink, httpLink,
                pollQuery, subscription, state, mutation, timer, checked, submits>>

(* ------------------------------ bounds -------------------------------- *)

\* operations an arbitrary caller hands to the router in RouterSpec
MaxOps == 2
\* submit events of the vote form in Spec
MaxSubmits == 3

(* ----------------------------- JavaScript ----------------------------- *)

Undefined == "undefined"
None == "none"

\* !x for the values a state field takes: undefined and "" are falsy
Falsy(x) == x = Undefined \/ x = ""

(* ------------------------- endpoint derivation ------------------------ *)

GRAPHQL_ENDPOINT == "genuine-macaw-22.hasura.app"

Protocols == {"http:", "https:"}

URI(s, host, path) == [scheme |-> s, host |-> host, path |-> path]

\* a scheme that ignores how the page was loaded
schemePlain(proto) == proto

scheme(proto) == IF protocol = "https:" THEN proto \o "s" ELSE proto

wsURIValue == URI(scheme("ws"), GRAPHQL_ENDPOINT, "/v1/graphql")

httpURLValue == URI(scheme("https"), GRAPHQL_ENDPOINT, "/v1/graphql")

(* ------------------------------ documents ----------------------------- *)

OperationTypes == {"query", "mutation", "subscription"}

Definitions ==
    [kind : {"OperationDefinition"}, operation : OperationTypes]
    \cup [kind : {"FragmentDefinition", "ObjectTypeDefinition"}, operation : {Undefined}]

\* parsed documents of at most two definitions, in either order
Documents ==
    {<<>>} \cup {<<d>> : d \in Definitions}
           \cup {<<d, e>> : d \in Definitions, e \in Definitions}

VariablesOf == {[pollId |-> "p1"], [pollId |-> "p2"]}

QUERY_GET_POLL == <<[kind |-> "OperationDefinition", operation |-> "query"]>>

MUTATION_VOTE == <<[kind |-> "OperationDefinition", operation |-> "mutation"]>>

SUBSCRIPTION_RESULT == <<[kind |-> "OperationDefinition", operation |-> "subscription"]>>

RECURSIVE firstOfKind(_, _)
\* <<d>> for the first definition d of doc whose kind is in kinds, else <<>>
firstOfKind(doc, kinds) ==
    IF doc = <<>> THEN <<>>
    ELSE IF Head(doc).kind \in kinds THEN <<Head(doc)>>
    ELSE firstOfKind(Tail(doc), kinds)

\* the first operation definition, else the first fragment definition, else
\* nothing (<<>>): the falsy result that splitter's `|| {}` provides for
getMainDefinition(query) ==
    LET op == firstOfKind(query, {"OperationDefinition"})
    IN  IF op # <<>> THEN op
        ELSE firstOfKind(query, {"FragmentDefinition"})

\* getMainDefinition(query) || {}: a missing field of {} reads undefined
mainOrEmpty(query) ==
    LET main == getMainDefinition(query)
    IN  IF main = <<>> THEN [kind |-> Undefined, operation |-> Undefined]
        ELSE main[1]

(* ------------------------------- router ------------------------------- *)

\* splitter that looks at the kind of the main definition only
splitterKindOnly(operation) ==
    LET def == mainOrEmpty(operation.query)
    IN  def.kind = "OperationDefinition"

splitter(operation) ==
    LET def == mainOrEmpty(operation.query)
        isSubscription ==
            def.kind = "OperationDefinition" /\ def.operation = "subscription"
    IN  isSubscription

\* split with its two links exchanged
linkSwapped(operation) == IF splitter(operation) THEN "httpLink" ELSE "wsLink"

\* split(splitter, wsLink, httpLink): the link the operation is forwarded to
link(operation) == IF splitter(operation) THEN "wsLink" ELSE "httpLink"

\* client.link.request(operation): the operation is logged and forwarded
request(query, variables) ==
    LET operation == [id |-> Len(requests) + 1, query |-> query,
                      variables |-> variables]
        to == link(operation)
    IN  /\ requests' = Append(requests, operation)
        /\ wsLink' = IF to = "wsLink"
                     THEN Append(wsLink, [operation |-> operation, url |-> wsURI])
                     ELSE wsLink
        /\ httpLink' = IF to = "httpLink"
                       THEN Append(httpLink, [operation |-> operation, url |-> httpURL])
                       ELSE httpLink

\* any caller of the client: any document, any variables
Dispatch ==
    /\ Len(requests) < MaxOps
    /\ \E query \in Documents, variables \in VariablesOf : request(query, variables)
    /\ UNCHANGED <<pageVars, pollVars>>

(* ------------------------------ the poll ------------------------------ *)

\* the poll the query returns and the user the page was opened for
PollId == "p1"
Options == {"o1", "o2"}
UserId == "u1"

\* what a hook returns before it is called, while loading, and afterwards
HookIdle    == [called |-> FALSE, loading |-> FALSE, data |-> Undefined, error |-> Undefined]
HookLoading == [called |-> TRUE, loading |-> TRUE, data |-> Undefined, error |-> Undefined]
HookData(d) == [called |-> TRUE, loading |-> FALSE, data |-> d, error |-> Undefined]
HookError   == [called |-> TRUE, loading |-> FALSE, data |-> Undefined, error |-> "error"]

\* setState(object) of useState replaces the state: a key the object does
\* not give reads undefined afterwards
ButtonOnly(text, style) ==
    [optionId |-> Undefined, pollId |-> Undefined,
     voteBtnText |-> text, voteBtnStyle |-> style]

defaultState ==
    [optionId |-> "", pollId |-> PollId,
     voteBtnText |-> "(ballot) Vote", voteBtnStyle |-> "primary"]

\* Poll renders PollQuestion and Result once the query has data
Mounted == pollQuery.data # Undefined

\* what Poll renders
PollView ==
    IF pollQuery.loading THEN "Loading"
    ELSE IF pollQuery.error # Undefined THEN "Error"
    ELSE "polls"

\* what Result renders
ResultView ==
    IF subscription.loading THEN "Loading"
    ELSE IF subscription.error # Undefined THEN "Error"
    ELSE IF subscription.data = "results" THEN "PollChart"
    ELSE "No result"

\* Poll is rendered: useQuery(QUERY_GET_POLL) sends the query
Poll ==
    /\ ~pollQuery.called
    /\ request(QUERY_GET_POLL, <<>>)
    /\ pollQuery' = HookLoading
    /\ UNCHANGED <<pageVars, subscription, state, mutation, timer, checked, submits>>

\* the query's result arrives: PollQuestion and Result are rendered, and
\* Result's useSubscription(SUBSCRIPTION_RESULT, {variables: {pollId}}) subscribes
QueryData ==
    /\ pollQuery.loading
    /\ pollQuery' = HookData("poll")
    /\ request(SUBSCRIPTION_RESULT, [pollId |-> PollId])
    /\ subscription' = HookLoading
    /\ UNCHANGED <<pageVars, state, mutation, timer, checked, submits>>

QueryError ==
    /\ pollQuery.loading
    /\ pollQuery' = HookError
    /\ UNCHANGED <<pageVars, routerVars, subscription, state, mutation, timer,
                   checked, submits>>

\* the subscription delivers poll_results, empty or not
SubscriptionData ==
    /\ subscription.called /\ subscription.error = Undefined
    /\ \E d \in {"empty", "results"} : subscription' = HookData(d)
    /\ UNCHANGED <<pageVars, routerVars, pollQuery, state, mutation, timer,
                   checked, submits>>

SubscriptionError ==
    /\ subscription.called /\ subscription.error = Undefined
    /\ subscription' = HookError
    /\ UNCHANGED <<pageVars, routerVars, pollQuery, state, mutation, timer,
                   checked, submits>>

\* the change event of a radio: the browser raises it for a radio that was
\* not the checked one
handleOptionChange(optionId) ==
    /\ Mounted
    /\ optionId # checked
    /\ checked' = optionId
    /\ state' = [state EXCEPT !.optionId = optionId]
    /\ UNCHANGED <<pageVars, routerVars, pollQuery, subscription, mutation, timer,
                   submits>>

\* handlesubmitVote that sends the vote whatever the state holds
handlesubmitVoteUnguarded ==
    /\ Mounted
    /\ submits < MaxSubmits
    /\ submits' = submits + 1
    /\ state' = ButtonOnly("(ballot) Submitting", "info")
    /\ request(MUTATION_VOTE, [optionId |-> state.optionId, userId |-> UserId])
    /\ mutation' = HookLoading
    /\ timer' = FALSE
    /\ UNCHANGED <<pageVars, pollQuery, subscription, checked>>

\* the form is submitted.  vote() puts the hook's result to loading with data
\* and error undefined; when that changes [data, error] the effect's cleanup
\* clears the timer and the effect's body finds neither data nor error
handlesubmitVote ==
    /\ Mounted
    /\ submits < MaxSubmits
    /\ submits' = submits + 1
    /\ IF Falsy(state.optionId)
       THEN /\ state' = ButtonOnly("(hand) Select an option and try again", "warning")
            /\ UNCHANGED <<routerVars, mutation, timer>>
       ELSE /\ state' = ButtonOnly("(ballot) Submitting", "info")
            /\ request(MUTATION_VOTE, [optionId |-> state.optionId, userId |-> UserId])
            /\ mutation' = HookLoading
            /\ timer' = IF mutation.data # Undefined \/ mutation.error # Undefined
                        THEN FALSE ELSE timer
    /\ UNCHANGED <<pageVars, pollQuery, subscription, checked>>

\* the vote's result reaches the hook (of several votes in flight, the last
\* one's does): the effect finds data, shows Done and starts the timer
MutationData ==
    /\ mutation.loading
    /\ mutation' = HookData("insert_vote")
    /\ state' = ButtonOnly("(thumb) Done", "success")
    /\ timer' = TRUE
    /\ UNCHANGED <<pageVars, routerVars, pollQuery, subscription, checked, submits>>

\* the vote's error reaches the hook: the effect finds error
MutationError ==
    /\ mutation.loading
    /\ mutation' = HookError
    /\ state' = ButtonOnly("Error (sad) Try again", "danger")
    /\ timer' = FALSE
    /\ UNCHANGED <<pageVars, routerVars, pollQuery, subscription, checked, submits>>

\* 5000 ms after Done: re-authorize to vote
TimerFire ==
    /\ timer
    /\ timer' = FALSE
    /\ state' = ButtonOnly("(ballot+VS16) Vote", "primary")
    /\ UNCHANGED <<pageVars, routerVars, pollQuery, subscription, mutation, checked,
                   submits>>

(* --------------------------- specifications --------------------------- *)

Init ==
    /\ protocol \in Protocols
    /\ wsURI = wsURIValue
    /\ httpURL = httpURLValue
    /\ requests = <<>>
    /\ wsLink = <<>>
    /\ httpLink = <<>>
    /\ pollQuery = HookIdle
    /\ subscription = HookIdle
    /\ state = defaultState
    /\ mutation = HookIdle
    /\ timer = FALSE
    /\ checked = None
    /\ submits = 0

\* the page: Poll, PollQuestion and Result over the client
Next ==
    \/ Poll
    \/ QueryData
    \/ QueryError
    \/ SubscriptionData
    \/ SubscriptionError
    \/ \E optionId \in Options : handleOptionChange(optionId)
    \/ handlesubmitVote
    \/ MutationData
    \/ MutationError
    \/ TimerFire

Spec == Init /\ [][Next]_vars

\* the router alone, handed any operation
RouterSpec == Init /\ [][Dispatch]_vars

(* ------------------------------- claims ------------------------------- *)

Unencrypted == {"ws", "http"}

\* the operation numbered id was forwarded to the link whose log is given
ForwardedTo(log, id) == {j \in 1..Len(log) : log[j].operation.id = id}

\* the main definition of the document is a subscription operation
IsSubscriptionDocument(query) ==
    LET main == getMainDefinition(query)
    IN  /\ main # <<>>
        /\ main[1].kind = "OperationDefinition"
        /\ main[1].operation = "subscription"

IsMutationDocument(query) ==
    LET main == getMainDefinition(query)
    IN  /\ main # <<>>
        /\ main[1].kind = "OperationDefinition"
        /\ main[1].operation = "mutation"

C2_ExactlyOneTransport ==
    \A i \in 1..Len(requests) :
        /\ Cardinality(ForwardedTo(wsLink, i)) + Cardinality(ForwardedTo(httpLink, i)) = 1
        /\ IsMutationDocument(requests[i].query) =>
              /\ ForwardedTo(wsLink, i) = {}
              /\ ForwardedTo(httpLink, i) # {}

\* a mutation and a subscription were both dispatched
C2_Witness ==
    \E i, k \in 1..Len(requests) :
        /\ IsMutationDocument(requests[i].query)
        /\ ForwardedTo(httpLink, i) # {}
        /\ IsSubscriptionDocument(requests[k].query)

\* C3: on a page loaded over https the endpoints are wss://H/v1/graphql and
\* https://H/v1/graphql, otherwise ws://H/v1/graphql and http://H/v1/graphql.
C3_ClaimedEndpoints ==
    /\ protocol = "https:" =>
          /\ wsURI = URI("wss", GRAPHQL_ENDPOINT, "/v1/graphql")
          /\ httpURL = URI("https", GRAPHQL_ENDPOINT, "/v1/graphql")
    /\ protocol # "https:" =>
          /\ wsURI = URI("ws", GRAPHQL_ENDPOINT, "/v1/graphql")
          /\ httpURL = URI("http", GRAPHQL_ENDPOINT, "/v1/graphql")

\* C4: on a page loaded over https neither endpoint, and no request sent on
\* either link, has the scheme ws or http.
C4_NoUnencryptedChannel ==
    protocol = "https:" =>
        /\ wsURI.scheme \notin Unencrypted
        /\ httpURL.scheme \notin Unencrypted
        /\ \A j \in 1..Len(wsLink) : wsLink[j].url.scheme \notin Unencrypted
        /\ \A j \in 1..Len(httpLink) : httpLink[j].url.scheme \notin Unencrypted

\* an https page that has sent on both links
C4_Witness ==
    /\ protocol = "https:"
    /\ Len(wsLink) > 0
    /\ Len(httpLink) > 0

\* the operation a step has just handed to the router
Sent == requests'[Len(requests')]

\* C9: a submit with no option checked sends nothing and puts the button in
\* the warning state; a vote that is sent carries the checked option, which
\* is not empty, and the user's id.
C9_VoteCarriesCheckedOption ==
    [][ /\ (submits' # submits /\ checked = None) =>
              /\ requests' = requests
              /\ state'.voteBtnText = "(hand) Select an option and try again"
              /\ state'.voteBtnStyle = "warning"
        /\ (Len(requests') > Len(requests) /\ Sent.query = MUTATION_VOTE) =>
              /\ Sent.variables.optionId \in Options
              /\ Sent.variables.optionId # ""
              /\ Sent.variables.optionId = checked
              /\ Sent.variables.userId = UserId ]_vars

\* the form was submitted with no option checked: no vote was sent and the
\* button warns
C9_Witness ==
    /\ checked = None
    /\ submits > 0
    /\ state.voteBtnStyle = "warning"
    /\ \A i \in 1..Len(requests) : requests[i].query # MUTATION_VOTE

\* C10: the component state always holds pollId = poll.id and optionId = the
\* option selected last ("" when none was).
C10_StateKeepsPollAndOption ==
    /\ state.pollId = PollId
    /\ state.optionId = (IF checked = None THEN "" ELSE checked)

====
